---------------------------- MODULE Spec2Model ----------------------------
(***************************************************************************)
(* Model of the EasyCab central coordinator, src/src/central/ec_central.py *)
(* (class ECCentral).  The registry of taxis and locations, the taxi file, *)
(* the grid and the messages published on the bus are the state; every     *)
(* handler of the coordinator is an action.                                *)
(***************************************************************************)
EXTENDS Integers, Sequences, FiniteSets, TLC

(***************************************************************************)
(* Bounds of the model.                                                    *)
(***************************************************************************)
NumTaxis == 2
MaxCoord == 1
MaxParse == 12
MaxRequests == 2
MaxUpdates == 2
MaxConcUpdates == 1

\* self.map_size = (20, 20)
MapSize == 20

TaxiIds == 1..NumTaxis

(***************************************************************************)
(* Python values.  A value that the code formats into the taxi file or     *)
(* compares keeps its Python type next to its printed form, so that the    *)
(* int 1 and the str "1" are different values with the same str().         *)
(***************************************************************************)
Digits == <<"0", "1", "2", "3", "4", "5", "6", "7", "8", "9">>

RECURSIVE IntToStr(_)
IntToStr(n) ==
    IF n < 0 THEN "-" \o IntToStr(0 - n)
    ELSE IF n < 10 THEN Digits[n + 1]
    ELSE IntToStr(n \div 10) \o Digits[(n % 10) + 1]

\* int(s): the integers whose decimal form is s (none: ValueError)
IsIntStr(s) == \E n \in 0..MaxParse : IntToStr(n) = s
StrToInt(s) == CHOOSE n \in 0..MaxParse : IntToStr(n) = s

PyInt(n) == [type |-> "int", repr |-> IntToStr(n)]
PyStr(s) == [type |-> "str", repr |-> s]
PyNone == [type |-> "NoneType", repr |-> "None"]
\* str(v), as the f-string of save_taxis applies it
Str(v) == v.repr

\* a position given as a pair, a value given as a string key, or nothing
PyPos(x, y) == [kind |-> "pos", x |-> x, y |-> y]
PyKey(s) == [kind |-> "str", s |-> s]
PyNoLoc == [kind |-> "none"]
\* `if customer_location:`
Truthy(v) == v.kind # "none"

(***************************************************************************)
(* Python dicts keep insertion order: a dict is a sequence of records with *)
(* pairwise different `id` fields.                                         *)
(***************************************************************************)
Keys(d) == {d[i].id : i \in 1..Len(d)}
Has(d, k) == k \in Keys(d)
IndexOf(d, k) == CHOOSE i \in 1..Len(d) : d[i].id = k
Get(d, k) == d[IndexOf(d, k)]
Put(d, v) == IF Has(d, v.id) THEN [d EXCEPT ![IndexOf(d, v.id)] = v]
             ELSE Append(d, v)

\* @dataclass Taxi, @dataclass Location
Taxi(id, status, color, position, customer) ==
    [id |-> id, status |-> status, color |-> color, position |-> position,
     customer_asigned |-> customer]
Location(id, position, color) ==
    [id |-> id, position |-> position, color |-> color]

(***************************************************************************)
(* The taxi file: a sequence of lines, a line being the sequence of its    *)
(* '#'-separated fields.                                                   *)
(***************************************************************************)
\* the f-string of save_taxis
FormatTaxi(t) ==
    <<IntToStr(t.id), t.status, t.color, IntToStr(t.position[1]),
      IntToStr(t.position[2]), Str(t.customer_asigned)>>

\* the body of the loop of load_taxis; a line it cannot unpack or convert
\* raises, which ends the load
LineLoads(line) ==
    /\ Len(line) = 6
    /\ IsIntStr(line[1])
    /\ IsIntStr(line[4])
    /\ IsIntStr(line[5])
ParseTaxi(line) ==
    Taxi(StrToInt(line[1]), line[2], line[3],
         <<StrToInt(line[4]), StrToInt(line[5])>>, PyStr(line[6]))

RECURSIVE LoadFrom(_, _, _)
LoadFrom(f, i, acc) ==
    IF i > Len(f) THEN acc
    ELSE IF ~LineLoads(f[i]) THEN acc
    ELSE LoadFrom(f, i + 1, Put(acc, ParseTaxi(f[i])))

load_taxis(f) == LoadFrom(f, 1, <<>>)

\* the file save_taxis leaves when it has written every taxi
SavedFile(ts) == [i \in 1..Len(ts) |-> FormatTaxi(ts[i])]

\* validate_taxis_file: whether it logs its success; it expects 5 fields in a
\* line, logs the error of any other line and changes nothing
validate_taxis_file(f) == \A i \in 1..Len(f) : Len(f[i]) = 5

(***************************************************************************)
(* draw_map: the grid is cleared, every location is placed, then every     *)
(* taxi; a cell keeps one character (numpy dtype '<U1').  A grid is the    *)
(* function from its non-blank cells <<y, x>> to their characters.         *)
(***************************************************************************)
CustomerLocId(c) == "customer_" \o Str(c)

\* what a '<U1' cell keeps of an id: its first character
U1(s) == IF \E n \in 0..MaxParse : s = CustomerLocId(PyInt(n)) THEN "c"
         ELSE IF s \in {CustomerLocId(PyStr("a")), CustomerLocId(PyStr("b")),
                        CustomerLocId(PyNone)} THEN "c"
         ELSE s

InGrid(v) == v \in (0 - MapSize)..(MapSize - 1)
Wrap(v) == IF v < 0 THEN v + MapSize ELSE v
SetCell(m, y, x, ch) ==
    [cell \in DOMAIN m \cup {<<Wrap(y), Wrap(x)>>} |->
        IF cell = <<Wrap(y), Wrap(x)>> THEN ch ELSE m[cell]]
EmptyMap == [cell \in {} |-> " "]

\* `x, y = location.position; self.map[y, x] = location.id`
LocPlaces(l) == l.position.kind = "pos" /\ InGrid(l.position.x) /\ InGrid(l.position.y)
TaxiPlaces(t) == InGrid(t.position[1]) /\ InGrid(t.position[2])

RECURSIVE PlaceTaxis(_, _, _)
PlaceTaxis(ts, i, m) ==
    IF i > Len(ts) THEN [map |-> m, ok |-> TRUE]
    ELSE IF ~TaxiPlaces(ts[i]) THEN [map |-> m, ok |-> FALSE]
    ELSE PlaceTaxis(ts, i + 1,
                    SetCell(m, ts[i].position[2], ts[i].position[1], U1(IntToStr(ts[i].id))))

RECURSIVE PlaceLocations(_, _, _, _)
PlaceLocations(locs, ts, i, m) ==
    IF i > Len(locs) THEN PlaceTaxis(ts, 1, m)
    ELSE IF ~LocPlaces(locs[i]) THEN [map |-> m, ok |-> FALSE]
    ELSE PlaceLocations(locs, ts, i + 1,
                        SetCell(m, locs[i].position.y, locs[i].position.x, U1(locs[i].id)))

\* the grid draw_map leaves, and whether it returned (ok) or raised
draw_map(locs, ts) == PlaceLocations(locs, ts, 1, EmptyMap)

\* the payload broadcast_map publishes on 'map_updates'
MapData(m, ts, locs) ==
    [topic |-> "map_updates",
     map |-> m,
     taxis |-> [i \in 1..Len(ts) |->
                  [id |-> ts[i].id, position |-> ts[i].position,
                   status |-> ts[i].status, color |-> ts[i].color]],
     locations |-> [i \in 1..Len(locs) |->
                  [id |-> locs[i].id, position |-> locs[i].position,
                   color |-> locs[i].color]]]

(***************************************************************************)
(* The messages of the other topics.                                       *)
(***************************************************************************)
\* notify_customer_assignment
AssignmentResponse(customer_id, t) ==
    [topic |-> "taxi_responses", customer_id |-> customer_id,
     status |-> "OK", assigned_taxi |-> t.id]

\* notify_customer
TripEndResponse(t) ==
    [topic |-> "taxi_response", customer_id |-> t.customer_asigned,
     status |-> "END", assigned_taxi |-> t.id]

\* send_taxi_instruction: self.locations[pickup_location] needs a hashable
\* key of the dict (a position is a list: TypeError; no such key: KeyError)
InstructionError(locs, pickup_location, destination) ==
    IF pickup_location.kind = "pos" THEN "TypeError"
    ELSE IF pickup_location.kind = "none" THEN "KeyError"
    ELSE IF ~Has(locs, pickup_location.s) THEN "KeyError"
    ELSE IF ~Has(locs, destination) THEN "KeyError"
    ELSE "none"
Instruction(locs, t, customer_id, pickup_location, destination) ==
    [topic |-> "taxi_instructions", taxi_id |-> t.id, instruction |-> "MOVE",
     pickup |-> Get(locs, pickup_location.s).position,
     destination |-> Get(locs, destination).position,
     customer_id |-> customer_id]

(***************************************************************************)
(* State.                                                                  *)
(***************************************************************************)
VARIABLES
    taxis,          \* self.taxis
    locations,      \* self.locations
    map,            \* self.map
    map_changed,    \* self.map_changed
    file,           \* the content of self.taxis_file
    out,            \* what the last handler published or replied, in order
    ret,            \* how the last handler ended: its return value or its exception
    req_offset,     \* messages consumed from topic taxi_requests
    upd_offset,     \* messages consumed from topic taxi_updates
    rpc,            \* thread kafka_listener_taxi_requests: the line it is at
    rreq,           \* ... its `request`
    rtaxi,          \* ... its `taxi`: the place of the chosen taxi in self.taxis
    upc,            \* thread kafka_listener_taxi_updates: the line it is at
    uupd,           \* ... its `update`
    utaxi,          \* ... its `taxi`: an object of self.taxis, or one a reload dropped
    bpc,            \* thread auto_broadcast_map: the line it is at
    biter,          \* ... the size of self.locations its iterator started with
    apc,            \* a thread handle_taxi_auth: the line it is at
    aid             \* ... its `taxi_id`

request_thread == <<rpc, rreq, rtaxi>>
update_thread == <<upc, uupd, utaxi>>
broadcaster_thread == <<bpc, biter>>
auth_thread == <<apc, aid>>
threads == <<request_thread, update_thread, broadcaster_thread, auth_thread>>
offsets == <<req_offset, upd_offset>>
vars == <<taxis, locations, map, map_changed, file, out, ret, offsets, threads>>

(***************************************************************************)
(* Inputs.                                                                 *)
(***************************************************************************)
Customers == {PyInt(1), PyStr("a")}

\* /data/map_config.txt as load_map_config reads it
StaticLocations == <<Location("A", PyPos(1, 1), "BLUE")>>

\* /data/taxis.txt at startup: one line per taxi, free or on a trip
InitialTaxi(id, busy) ==
    IF busy THEN Taxi(id, "BUSY", "GREEN", <<0, 0>>, PyStr("a"))
    ELSE Taxi(id, "FREE", "RED", <<0, 0>>, PyStr("None"))
InitialFiles ==
    {[i \in TaxiIds |-> FormatTaxi(InitialTaxi(i, busy[i]))] : busy \in [TaxiIds -> BOOLEAN]}

\* the payloads of topic taxi_requests
Requests ==
    [customer_id : Customers,
     destination : {"A", "Z", CustomerLocId(PyStr("a"))},
     customer_location : {PyNoLoc, PyPos(MaxCoord, 0), PyKey("A")}]

\* the payloads of topic taxi_updates: a taxi reports that it waits, that it
\* carries a customer or that it has arrived with one
Telemetry ==
    {[status |-> "FREE", color |-> "RED", customer_id |-> PyNone]}
    \cup {[status |-> "BUSY", color |-> "GREEN", customer_id |-> c] : c \in Customers}
    \cup {[status |-> "END", color |-> "RED", customer_id |-> c] : c \in Customers}
Updates ==
    {[taxi_id |-> id, position |-> <<i, i>>, status |-> t.status, color |-> t.color,
      customer_id |-> t.customer_id] :
        id \in 1..(NumTaxis + 1), i \in {0, MaxCoord}, t \in Telemetry}

\* a thread that handles no message, a name bound to no object
NoMessage == [topic |-> "none"]
NoObject == [ref |-> "none"]

\* what a taxi sends on its authentication connection
AuthIds == 1..(NumTaxis + 1)

(***************************************************************************)
(* __init__ and run: the registry of taxis is empty (run drops the result  *)
(* of load_taxis), the locations are those of the map file, the grid is    *)
(* drawn once.                                                             *)
(***************************************************************************)
Init ==
    /\ taxis = <<>>
    /\ locations = StaticLocations
    /\ map = draw_map(StaticLocations, <<>>).map
    /\ map_changed = FALSE
    /\ file \in InitialFiles
    /\ out = <<>>
    /\ ret = "None"
    /\ req_offset = 0
    /\ upd_offset = 0
    /\ rpc = "idle"
    /\ rreq = NoMessage
    /\ rtaxi = 0
    /\ upc = "idle"
    /\ uupd = NoMessage
    /\ utaxi = NoObject
    /\ bpc = "check"
    /\ biter = 0
    /\ apc = "idle"
    /\ aid = 0

(***************************************************************************)
(* process_customer_request                                                *)
(***************************************************************************)
\* lines 243-245: the customer's location is registered
RegisterCustomer(locs, request) ==
    IF Truthy(request.customer_location)
    THEN Put(locs, Location(CustomerLocId(request.customer_id),
                            request.customer_location, "YELLOW"))
    ELSE locs

\* line 248: `destination not in self.locations` is false
DestinationAlwaysKnown(locs, destination) == TRUE
DestinationKnown(locs, destination) == Has(locs, destination)

\* select_available_taxi: the registry is reloaded from the file; the index
\* of the first FREE taxi of the reloaded registry, 0 if there is none
FirstFree(ts) ==
    IF \E i \in 1..Len(ts) : ts[i].status = "FREE"
    THEN CHOOSE i \in 1..Len(ts) :
            /\ ts[i].status = "FREE"
            /\ \A j \in 1..(i - 1) : ts[j].status # "FREE"
    ELSE 0
select_available_taxi(f) ==
    [taxis |-> load_taxis(f), chosen |-> FirstFree(load_taxis(f))]

\* lines 269-271
Assigned(t, customer_id) ==
    [t EXCEPT !.status = "BUSY", !.color = "GREEN", !.customer_asigned = customer_id]

process_customer_request(request) ==
    LET locs == RegisterCustomer(locations, request)
        changed == map_changed \/ Truthy(request.customer_location)
        sel == select_available_taxi(file)
        ts == [sel.taxis EXCEPT ![sel.chosen] = Assigned(@, request.customer_id)]
        err == InstructionError(locs, request.customer_location, request.destination)
    IN  /\ req_offset < MaxRequests
        /\ req_offset' = req_offset + 1
        /\ locations' = locs
        /\ IF ~DestinationKnown(locs, request.destination)
           THEN /\ ret' = "False"
                /\ out' = <<>>
                /\ map_changed' = changed
                /\ UNCHANGED <<taxis, file>>
           ELSE IF sel.chosen = 0
           THEN /\ taxis' = sel.taxis
                /\ ret' = "False"
                /\ out' = <<>>
                /\ map_changed' = changed
                /\ UNCHANGED file
           ELSE /\ taxis' = ts
                /\ file' = SavedFile(ts)
                /\ IF err = "none"
                   THEN /\ out' = <<AssignmentResponse(request.customer_id, ts[sel.chosen]),
                                    Instruction(locs, ts[sel.chosen], request.customer_id,
                                                request.customer_location, request.destination)>>
                        /\ map_changed' = TRUE
                        /\ ret' = "True"
                   ELSE /\ out' = <<AssignmentResponse(request.customer_id, ts[sel.chosen])>>
                        /\ map_changed' = changed
                        /\ ret' = err
        /\ UNCHANGED <<map, upd_offset, threads>>

(***************************************************************************)
(* update_map                                                              *)
(***************************************************************************)
\* update_taxi_state: the registry after the update
update_taxi_state_relative(ts, update) ==
    IF Has(ts, update.taxi_id)
    THEN [ts EXCEPT ![IndexOf(ts, update.taxi_id)] =
            [@ EXCEPT !.position = <<(@[1] + update.position[1]) % MapSize,
                                     (@[2] + update.position[2]) % MapSize>>,
                      !.status = update.status,
                      !.color = update.color,
                      !.customer_asigned = update.customer_id]]
    ELSE ts
update_taxi_state(ts, update) ==
    IF Has(ts, update.taxi_id)
    THEN [ts EXCEPT ![IndexOf(ts, update.taxi_id)] =
            [@ EXCEPT !.position = update.position,
                      !.status = update.status,
                      !.color = update.color,
                      !.customer_asigned = update.customer_id]]
    ELSE ts

\* finalize_trip_if_needed: what it publishes
finalize_trip_if_needed(ts, update) ==
    IF Has(ts, update.taxi_id) /\ Get(ts, update.taxi_id).status = "END"
    THEN <<TripEndResponse(Get(ts, update.taxi_id))>>
    ELSE <<>>

update_map(update) ==
    LET ts == update_taxi_state(taxis, update)
        drawn == draw_map(locations, ts)
    IN  /\ upd_offset < MaxUpdates
        /\ upd_offset' = upd_offset + 1
        /\ taxis' = ts
        /\ map_changed' = (map_changed \/ Has(taxis, update.taxi_id))
        /\ map' = drawn.map
        /\ IF drawn.ok
           THEN /\ out' = finalize_trip_if_needed(ts, update)
                            \o <<MapData(drawn.map, ts, locations)>>
                /\ ret' = "None"
           ELSE /\ out' = finalize_trip_if_needed(ts, update)
                /\ ret' = "ValueError"
        /\ UNCHANGED <<locations, file, req_offset, threads>>

(***************************************************************************)
(* auto_broadcast_map: one turn of its loop                                *)
(***************************************************************************)
auto_broadcast_map ==
    /\ map_changed
    /\ out' = <<MapData(map, taxis, locations)>>
    /\ map_changed' = FALSE
    /\ ret' = "None"
    /\ UNCHANGED <<taxis, locations, map, file, offsets, threads>>

(***************************************************************************)
(* handle_taxi_auth                                                        *)
(***************************************************************************)
handle_taxi_auth(taxi_id) ==
    /\ out' = <<IF Has(load_taxis(file), taxi_id) THEN "OK" ELSE "KO", "close">>
    /\ ret' = "None"
    /\ UNCHANGED <<taxis, locations, map, map_changed, file, offsets, threads>>

Next ==
    \/ \E request \in Requests : process_customer_request(request)
    \/ \E update \in Updates : update_map(update)
    \/ auto_broadcast_map
    \/ \E taxi_id \in AuthIds : handle_taxi_auth(taxi_id)

Spec == Init /\ [][Next]_vars

(***************************************************************************)
(* The two listeners alone: every request with the telemetry of one taxi,  *)
(* and every update with the requests of one customer.                     *)
(***************************************************************************)
FewUpdates ==
    {u \in Updates : /\ u.taxi_id = 1
                     /\ u.position = <<MaxCoord, MaxCoord>>
                     /\ u.status \in {"FREE", "END"}
                     /\ u.customer_id \in {PyNone, PyInt(1)}}
FewRequests ==
    {r \in Requests : /\ r.customer_id = PyInt(1)
                      /\ r.destination = "A"
                      /\ r.customer_location = PyPos(MaxCoord, 0)}

NextRequests ==
    \/ \E request \in Requests : process_customer_request(request)
    \/ \E update \in FewUpdates : update_map(update)

SpecRequests == Init /\ [][NextRequests]_vars

NextUpdates ==
    \/ \E request \in FewRequests : process_customer_request(request)
    \/ \E update \in Updates : update_map(update)

SpecUpdates == Init /\ [][NextUpdates]_vars

(***************************************************************************)
(* The threads of run(), step by step.  The listeners, the broadcaster and *)
(* the authentication handlers share self.taxis, self.locations,           *)
(* self.map_changed and the taxi file without a lock; a step is one        *)
(* statement (a read of the registry or of the file is one step).  `out`   *)
(* is what the step published or replied.                                  *)
(***************************************************************************)
\* the requests and the updates the threads are run on
ConcRequests ==
    {r \in Requests : r.destination \in {"A", "Z"} /\ r.customer_location = PyKey("A")}
ConcUpdates ==
    {u \in Updates : /\ u.taxi_id \in TaxiIds
                     /\ u.position = <<MaxCoord, MaxCoord>>
                     /\ u.customer_id \in {PyNone, PyStr("a")}
                     /\ u.status \in {"FREE", "BUSY"}}
ConcAuthIds == {1, NumTaxis + 1}

\* lines 238-250
ReqRegister(request) ==
    /\ rpc = "idle"
    /\ req_offset < MaxRequests
    /\ req_offset' = req_offset + 1
    /\ locations' = RegisterCustomer(locations, request)
    /\ map_changed' = (map_changed \/ Truthy(request.customer_location))
    /\ IF ~DestinationKnown(locations', request.destination)
       THEN /\ ret' = "False"
            /\ UNCHANGED request_thread
       ELSE /\ rpc' = "select"
            /\ rreq' = request
            /\ UNCHANGED <<ret, rtaxi>>
    /\ out' = <<>>
    /\ UNCHANGED <<taxis, map, file, upd_offset, update_thread, broadcaster_thread, auth_thread>>

\* lines 264-265 and 253-260: self.taxis is bound to the new dict; the object
\* the update thread holds is no longer in it
ReqSelect ==
    /\ rpc = "select"
    /\ taxis' = select_available_taxi(file).taxis
    /\ utaxi' = IF utaxi.ref = "live"
                THEN [ref |-> "orphan", val |-> Get(taxis, uupd.taxi_id)]
                ELSE utaxi
    /\ IF select_available_taxi(file).chosen = 0
       THEN /\ ret' = "False"
            /\ rpc' = "idle"
            /\ rreq' = NoMessage
            /\ UNCHANGED rtaxi
       ELSE /\ rtaxi' = select_available_taxi(file).chosen
            /\ rpc' = "status"
            /\ UNCHANGED <<ret, rreq>>
    /\ out' = <<>>
    /\ UNCHANGED <<locations, map, map_changed, file, offsets, upc, uupd, broadcaster_thread, auth_thread>>

\* line 269
ReqSetStatus ==
    /\ rpc = "status"
    /\ taxis' = [taxis EXCEPT ![rtaxi].status = "BUSY"]
    /\ rpc' = "color"
    /\ out' = <<>>
    /\ UNCHANGED <<locations, map, map_changed, file, ret, offsets, rreq, rtaxi,
                   update_thread, broadcaster_thread, auth_thread>>

\* line 270
ReqSetColor ==
    /\ rpc = "color"
    /\ taxis' = [taxis EXCEPT ![rtaxi].color = "GREEN"]
    /\ rpc' = "customer"
    /\ out' = <<>>
    /\ UNCHANGED <<locations, map, map_changed, file, ret, offsets, rreq, rtaxi,
                   update_thread, broadcaster_thread, auth_thread>>

\* line 271
ReqSetCustomer ==
    /\ rpc = "customer"
    /\ taxis' = [taxis EXCEPT ![rtaxi].customer_asigned = rreq.customer_id]
    /\ rpc' = "open"
    /\ out' = <<>>
    /\ UNCHANGED <<locations, map, map_changed, file, ret, offsets, rreq, rtaxi,
                   update_thread, broadcaster_thread, auth_thread>>

\* line 80: open(self.taxis_file, 'w') truncates the file
ReqOpenFile ==
    /\ rpc = "open"
    /\ file' = <<>>
    /\ rpc' = "write"
    /\ out' = <<>>
    /\ UNCHANGED <<taxis, locations, map, map_changed, ret, offsets, rreq, rtaxi,
                   update_thread, broadcaster_thread, auth_thread>>

\* lines 81-84: the lines are written when the file is closed
ReqWriteFile ==
    /\ rpc = "write"
    /\ file' = SavedFile(taxis)
    /\ rpc' = "ack"
    /\ out' = <<>>
    /\ UNCHANGED <<taxis, locations, map, map_changed, ret, offsets, rreq, rtaxi,
                   update_thread, broadcaster_thread, auth_thread>>

\* line 275
ReqAcknowledge ==
    /\ rpc = "ack"
    /\ out' = <<AssignmentResponse(rreq.customer_id, taxis[rtaxi])>>
    /\ rpc' = "instr"
    /\ UNCHANGED <<taxis, locations, map, map_changed, file, ret, offsets, rreq, rtaxi,
                   update_thread, broadcaster_thread, auth_thread>>

\* lines 276 and 256-257
ReqInstruct ==
    /\ rpc = "instr"
    /\ IF InstructionError(locations, rreq.customer_location, rreq.destination) = "none"
       THEN /\ out' = <<Instruction(locations, taxis[rtaxi], rreq.customer_id,
                                    rreq.customer_location, rreq.destination)>>
            /\ map_changed' = TRUE
            /\ ret' = "True"
       ELSE /\ out' = <<>>
            /\ ret' = InstructionError(locations, rreq.customer_location, rreq.destination)
            /\ UNCHANGED map_changed
    /\ rpc' = "idle"
    /\ rreq' = NoMessage
    /\ UNCHANGED <<taxis, locations, map, file, offsets, rtaxi, update_thread, broadcaster_thread,
                   auth_thread>>

\* the object the update thread holds, and the registry or the dropped
\* object after it sets one field of it
HeldTaxi == IF utaxi.ref = "orphan" THEN utaxi.val ELSE Get(taxis, uupd.taxi_id)
UpdSetField(t) ==
    /\ IF utaxi.ref = "orphan"
       THEN /\ utaxi' = [utaxi EXCEPT !.val = t]
            /\ UNCHANGED taxis
       ELSE /\ taxis' = [taxis EXCEPT ![IndexOf(taxis, uupd.taxi_id)] = t]
            /\ UNCHANGED utaxi
    /\ out' = <<>>
    /\ UNCHANGED <<locations, map, map_changed, file, ret, offsets, request_thread,
                   uupd, broadcaster_thread, auth_thread>>

\* lines 132-136 and 149-150
UpdLookup(update) ==
    /\ upc = "idle"
    /\ upd_offset < MaxConcUpdates
    /\ upd_offset' = upd_offset + 1
    /\ uupd' = update
    /\ IF Has(taxis, update.taxi_id)
       THEN utaxi' = [ref |-> "live"] /\ upc' = "position"
       ELSE utaxi' = NoObject /\ upc' = "finalize"
    /\ out' = <<>>
    /\ UNCHANGED <<taxis, locations, map, map_changed, file, ret, req_offset,
                   request_thread, broadcaster_thread, auth_thread>>

\* line 151
UpdSetPosition ==
    /\ upc = "position"
    /\ UpdSetField([HeldTaxi EXCEPT !.position = uupd.position])
    /\ upc' = "status"

\* line 152
UpdSetStatus ==
    /\ upc = "status"
    /\ UpdSetField([HeldTaxi EXCEPT !.status = uupd.status])
    /\ upc' = "color"

\* line 153
UpdSetColor ==
    /\ upc = "color"
    /\ UpdSetField([HeldTaxi EXCEPT !.color = uupd.color])
    /\ upc' = "customer"

\* line 154
UpdSetCustomer ==
    /\ upc = "customer"
    /\ UpdSetField([HeldTaxi EXCEPT !.customer_asigned = uupd.customer_id])
    /\ upc' = "changed"

\* line 155
UpdMarkChanged ==
    /\ upc = "changed"
    /\ map_changed' = TRUE
    /\ upc' = "finalize"
    /\ out' = <<>>
    /\ UNCHANGED <<taxis, locations, map, file, ret, offsets, request_thread, uupd,
                   utaxi, broadcaster_thread, auth_thread>>

\* lines 164-165
UpdFinalize ==
    /\ upc = "finalize"
    /\ out' = IF utaxi.ref # "none" /\ HeldTaxi.status = "END"
              THEN <<TripEndResponse(HeldTaxi)>>
              ELSE <<>>
    /\ upc' = "draw"
    /\ utaxi' = NoObject
    /\ UNCHANGED <<taxis, locations, map, map_changed, file, ret, offsets,
                   request_thread, uupd, broadcaster_thread, auth_thread>>

\* line 169
UpdDraw ==
    /\ upc = "draw"
    /\ map' = draw_map(locations, taxis).map
    /\ IF draw_map(locations, taxis).ok
       THEN upc' = "broadcast" /\ UNCHANGED <<ret, uupd>>
       ELSE upc' = "idle" /\ ret' = "ValueError" /\ uupd' = NoMessage
    /\ out' = <<>>
    /\ UNCHANGED <<taxis, locations, map_changed, file, offsets, request_thread,
                   utaxi, broadcaster_thread, auth_thread>>

\* line 170
UpdBroadcast ==
    /\ upc = "broadcast"
    /\ out' = <<MapData(map, taxis, locations)>>
    /\ ret' = "None"
    /\ upc' = "idle"
    /\ uupd' = NoMessage
    /\ UNCHANGED <<taxis, locations, map, map_changed, file, offsets, request_thread,
                   utaxi, broadcaster_thread, auth_thread>>

\* line 352
BroadcasterCheck ==
    /\ bpc = "check"
    /\ map_changed
    /\ bpc' = "broadcast"
    /\ out' = <<>>
    /\ UNCHANGED <<taxis, locations, map, map_changed, file, ret, offsets,
                   request_thread, update_thread, biter, auth_thread>>

\* lines 354 and 212-217: broadcast_map starts to build the payload; the
\* iterator over self.locations.items() keeps the size the dict has now
BroadcasterItems ==
    /\ bpc = "broadcast"
    /\ biter' = Len(locations)
    /\ bpc' = "send"
    /\ out' = <<>>
    /\ UNCHANGED <<taxis, locations, map, map_changed, file, ret, offsets,
                   request_thread, update_thread, auth_thread>>

\* lines 216-222: the iterator ends; when the dict has changed size it raises
\* RuntimeError, which `except KafkaError` does not catch and which
\* auto_broadcast_map does not catch either: the thread ends
BroadcasterBroadcast ==
    /\ bpc = "send"
    /\ IF Len(locations) = biter
       THEN /\ out' = <<MapData(map, taxis, locations)>>
            /\ bpc' = "clear"
            /\ UNCHANGED ret
       ELSE /\ out' = <<>>
            /\ bpc' = "dead"
            /\ ret' = "RuntimeError"
    /\ biter' = 0
    /\ UNCHANGED <<taxis, locations, map, map_changed, file, offsets,
                   request_thread, update_thread, auth_thread>>

\* line 355
BroadcasterClear ==
    /\ bpc = "clear"
    /\ map_changed' = FALSE
    /\ bpc' = "check"
    /\ out' = <<>>
    /\ UNCHANGED <<taxis, locations, map, file, ret, offsets, request_thread,
                   update_thread, biter, auth_thread>>

\* lines 105-107
AuthReceive(taxi_id) ==
    /\ apc = "idle"
    /\ aid' = taxi_id
    /\ apc' = "load"
    /\ out' = <<>>
    /\ UNCHANGED <<taxis, locations, map, map_changed, file, ret, offsets,
                   request_thread, update_thread, broadcaster_thread>>

\* lines 110-116
AuthReply ==
    /\ apc = "load"
    /\ out' = <<IF Has(load_taxis(file), aid) THEN "OK" ELSE "KO">>
    /\ apc' = "close"
    /\ UNCHANGED <<taxis, locations, map, map_changed, file, ret, offsets,
                   request_thread, update_thread, broadcaster_thread, aid>>

\* line 120
AuthClose ==
    /\ apc = "close"
    /\ out' = <<"close">>
    /\ apc' = "idle"
    /\ aid' = 0
    /\ UNCHANGED <<taxis, locations, map, map_changed, file, ret, offsets,
                   request_thread, update_thread, broadcaster_thread>>

RequestThread ==
    \/ \E request \in ConcRequests : ReqRegister(request)
    \/ ReqSelect
    \/ ReqSetStatus
    \/ ReqSetColor
    \/ ReqSetCustomer
    \/ ReqOpenFile
    \/ ReqWriteFile
    \/ ReqAcknowledge
    \/ ReqInstruct

UpdateThread ==
    \/ \E update \in ConcUpdates : UpdLookup(update)
    \/ UpdSetPosition
    \/ UpdSetStatus
    \/ UpdSetColor
    \/ UpdSetCustomer
    \/ UpdMarkChanged
    \/ UpdFinalize
    \/ UpdDraw
    \/ UpdBroadcast

BroadcasterThread ==
    \/ BroadcasterCheck
    \/ BroadcasterItems
    \/ BroadcasterBroadcast
    \/ BroadcasterClear

AuthThread ==
    \/ \E taxi_id \in ConcAuthIds : AuthReceive(taxi_id)
    \/ AuthReply
    \/ AuthClose

NextConc == RequestThread \/ UpdateThread \/ BroadcasterThread \/ AuthThread

SpecConc == Init /\ [][NextConc]_vars

(***************************************************************************)
(* The request thread and the broadcaster alone.  A thread that has a      *)
(* statement to execute is scheduled in the end; whether a further request *)
(* arrives is up to the customers.                                         *)
(***************************************************************************)
\* the request thread inside process_customer_request
RequestHandling ==
    \/ ReqSelect
    \/ ReqSetStatus
    \/ ReqSetColor
    \/ ReqSetCustomer
    \/ ReqOpenFile
    \/ ReqWriteFile
    \/ ReqAcknowledge
    \/ ReqInstruct

NextBroadcast == RequestThread \/ BroadcasterThread

SpecBroadcast ==
    /\ Init
    /\ [][NextBroadcast]_vars
    /\ WF_vars(RequestHandling)
    /\ WF_vars(BroadcasterThread)

(***************************************************************************)
(* The listeners and their consumers.  create_consumer(topic) subscribes   *)
(* to one topic, in the group named after it; a message of a topic goes    *)
(* to one consumer of a group.  Both listeners create their consumer for   *)
(* 'taxi_requests', so a request reaches either of them.  A topic holds    *)
(* every payload of its kind (auto_offset_reset='earliest'); payloads are  *)
(* shown decoded.                                                          *)
(***************************************************************************)
\* line 314 and line 332
RequestListenerTopic == "taxi_requests"
UpdateListenerTopic == "taxi_requests"

\* `for message in consumer`: the messages a consumer of the topic yields
Delivered(topic) ==
    IF topic = "taxi_requests"
    THEN {[topic |-> "taxi_requests", value |-> r] : r \in Requests}
    ELSE {[topic |-> "taxi_updates", value |-> u] : u \in Updates}

\* the body of the `for` when the `if message.topic == ...` is false
Dropped(message) ==
    /\ IF message.topic = "taxi_requests"
       THEN /\ req_offset < MaxRequests
            /\ req_offset' = req_offset + 1
            /\ UNCHANGED upd_offset
       ELSE /\ upd_offset < MaxUpdates
            /\ upd_offset' = upd_offset + 1
            /\ UNCHANGED req_offset
    /\ out' = <<>>
    /\ ret' = "None"
    /\ UNCHANGED <<taxis, locations, map, map_changed, file, threads>>

\* lines 317-321
kafka_listener_taxi_requests(message) ==
    IF message.topic = "taxi_requests"
    THEN process_customer_request(message.value)
    ELSE Dropped(message)

\* lines 335-339
kafka_listener_taxi_updates(message) ==
    IF message.topic = "taxi_updates"
    THEN update_map(message.value)
    ELSE Dropped(message)

RequestListener ==
    \E message \in Delivered(RequestListenerTopic) : kafka_listener_taxi_requests(message)
UpdateListener ==
    \E message \in Delivered(UpdateListenerTopic) : kafka_listener_taxi_updates(message)

NextListeners == RequestListener \/ UpdateListener \/ auto_broadcast_map

SpecListeners ==
    /\ Init
    /\ [][NextListeners]_vars
    /\ WF_vars(RequestListener)
    /\ WF_vars(UpdateListener)

(***************************************************************************)
(* load_taxis on files with damaged lines: the file at startup may hold    *)
(* lines that lost their last field.                                       *)
(***************************************************************************)
Corrupt(line) == SubSeq(line, 1, 5)
LoadFiles ==
    {[i \in TaxiIds |-> IF bad[i] THEN Corrupt(f[i]) ELSE f[i]] :
        f \in InitialFiles, bad \in [TaxiIds -> BOOLEAN]}

InitLoad ==
    /\ taxis = <<>>
    /\ locations = StaticLocations
    /\ map = draw_map(StaticLocations, <<>>).map
    /\ map_changed = FALSE
    /\ file \in LoadFiles
    /\ out = <<>>
    /\ ret = "None"
    /\ req_offset = 0
    /\ upd_offset = 0
    /\ rpc = "idle"
    /\ rreq = NoMessage
    /\ rtaxi = 0
    /\ upc = "idle"
    /\ uupd = NoMessage
    /\ utaxi = NoObject
    /\ bpc = "check"
    /\ biter = 0
    /\ apc = "idle"
    /\ aid = 0

NextLoad ==
    \/ \E taxi_id \in AuthIds : handle_taxi_auth(taxi_id)
    \/ \E request \in Requests : process_customer_request(request)

SpecLoad == InitLoad /\ [][NextLoad]_vars

(***************************************************************************)
(* Properties of the handlers, each run as a whole (Spec).                 *)
(***************************************************************************)
\* the last handler was process_customer_request and it assigned a taxi
Accepted(o) == Len(o) >= 1 /\ o[1].topic = "taxi_responses"
NoTaxiFree(ts) == \A i \in 1..Len(ts) : ts[i].status # "FREE"
\* status, color, position and bound customer of a taxi, the customer as printed
Shown(t) == <<t.status, t.color, t.position, Str(t.customer_asigned)>>
\* the registry as ids and what each taxi shows
ShownRegistry(ts) == [i \in 1..Len(ts) |-> <<ts[i].id, Shown(ts[i])>>]

\* C2: a request whose destination is not a known location (when line 248
\* looks it up) returns False and leaves the registry of taxis as it was.
C2_UnknownDestinationRejected ==
    [][(req_offset' # req_offset)
        => \A request \in Requests :
            (process_customer_request(request) /\ ~Has(locations', request.destination))
            => (ret' = "False" /\ taxis' = taxis)]_vars

\* C2 witness: a request was rejected although the registry, which telemetry
\* has moved away from the file, holds a FREE taxi: it was not reloaded.
C2_Witness ==
    /\ ret = "False"
    /\ req_offset = 2
    /\ upd_offset >= 1
    /\ taxis # <<>>
    /\ taxis # load_taxis(file)
    /\ FirstFree(load_taxis(file)) # 0

\* C3: with a registry in which no taxi is FREE, a request for a known
\* destination (one that registers no pickup) returns False and leaves the
\* locations and what every taxi shows as they were.
C3_NoFreeTaxiRegistryUnchanged ==
    [][\A request \in Requests :
        (/\ process_customer_request(request)
         /\ Has(locations, request.destination)
         /\ ~Truthy(request.customer_location)
         /\ taxis # <<>>
         /\ NoTaxiFree(taxis))
        => (/\ ret' = "False"
            /\ ShownRegistry(taxis') = ShownRegistry(taxis)
            /\ locations' = locations)]_vars

\* C4: a request with a pickup position and a known destination, processed
\* while a taxi is FREE in the registry and in the file, makes a taxi
\* BUSY/GREEN for the customer and publishes the acknowledgment and a MOVE
\* instruction naming that taxi.
C4_AssignmentAndInstructionPublished ==
    [][\A request \in Requests :
        (/\ process_customer_request(request)
         /\ request.customer_location.kind = "pos"
         /\ Has(locations, request.destination)
         /\ FirstFree(taxis) # 0
         /\ FirstFree(load_taxis(file)) # 0)
        => \E i \in 1..Len(taxis') :
            /\ taxis'[i].status = "BUSY"
            /\ taxis'[i].color = "GREEN"
            /\ taxis'[i].customer_asigned = request.customer_id
            /\ Len(out') = 2
            /\ out'[1] = AssignmentResponse(request.customer_id, taxis'[i])
            /\ out'[2].topic = "taxi_instructions"
            /\ out'[2].instruction = "MOVE"
            /\ out'[2].taxi_id = taxis'[i].id]_vars

\* C5: a request changes no taxi but the one it assigns: every other taxi of
\* the registry shows the same status, color, position and customer after it.
C5_OtherTaxisUntouched ==
    [][\A request \in Requests :
        process_customer_request(request)
        => \A i \in 1..Len(taxis) :
            (Accepted(out') /\ out'[1].assigned_taxi = taxis[i].id)
            \/ (Has(taxis', taxis[i].id)
                /\ Shown(Get(taxis', taxis[i].id)) = Shown(taxis[i]))]_vars

\* C6: an update with status END for a known taxi publishes the completion
\* for the taxi's customer and leaves the taxi FREE with no customer bound.
C6_TripEndRecyclesTaxi ==
    [][\A update \in Updates :
        (update_map(update) /\ Has(taxis, update.taxi_id) /\ update.status = "END")
        => (/\ Len(out') >= 1
            /\ out'[1].status = "END"
            /\ out'[1].customer_id = update.customer_id
            /\ Get(taxis', update.taxi_id).status = "FREE"
            /\ Get(taxis', update.taxi_id).customer_asigned \in {PyNone, PyStr("")})]_vars

\* C7: when update_map has applied an update to the registry, applying the
\* same update a second time leaves the registry as the first application
\* left it.
C7_TelemetryIdempotent ==
    [][(upd_offset' # upd_offset)
        => \A update \in Updates :
            (taxis' = update_taxi_state(taxis, update))
            => update_taxi_state(taxis', update) = taxis']_vars

\* C7 witness: telemetry has been applied to a taxi of the registry, which
\* now differs from what the file holds for it.
C7_Witness ==
    /\ upd_offset = MaxUpdates
    /\ ret = "None"
    /\ \E i \in 1..Len(taxis) :
        /\ taxis[i].position = <<MaxCoord, MaxCoord>>
        /\ taxis[i].status = "END"
        /\ taxis[i].customer_asigned = PyInt(1)

\* C8: the request that was just accepted, delivered again, leaves what the
\* taxis of the registry show and the file as the first delivery left them.
C8_RedeliveredRequestIdempotent ==
    [][\A request \in Requests :
        (/\ process_customer_request(request)
         /\ ret = "True"
         /\ Len(out) = 2
         /\ InstructionError(locations, request.customer_location, request.destination) = "none"
         /\ out[1].customer_id = request.customer_id
         /\ out[2] = Instruction(locations, [id |-> out[1].assigned_taxi],
                                 request.customer_id, request.customer_location,
                                 request.destination))
        => (ShownRegistry(taxis') = ShownRegistry(taxis) /\ file' = file)]_vars

\* C9: saving the registry and loading the file again gives the registry.
C9_SaveLoadRoundTrip == load_taxis(SavedFile(taxis)) = taxis

\* C12: every processed request publishes a response for its customer on
\* taxi_responses, whether it is accepted or rejected.
C12_EveryRequestAnswered ==
    [][\A request \in Requests :
        process_customer_request(request)
        => \E i \in 1..Len(out') :
            /\ out'[i].topic = "taxi_responses"
            /\ out'[i].customer_id = request.customer_id]_vars

\* C13: the taxi assigned to a request, when the registry knows it, is FREE
\* in the registry as it is when the request arrives.
C13_DispatchReadsRegistry ==
    [][\A request \in Requests :
        (/\ process_customer_request(request)
         /\ Accepted(out')
         /\ Has(taxis, out'[1].assigned_taxi))
        => Get(taxis, out'[1].assigned_taxi).status = "FREE"]_vars

\* C16: the grid of a message the periodic broadcaster publishes is the
\* grid draw_map renders from the taxis and the locations of that message.
C16_BroadcastGridRendered ==
    [][(auto_broadcast_map /\ draw_map(out'[1].locations, out'[1].taxis).ok)
        => out'[1].map = draw_map(out'[1].locations, out'[1].taxis).map]_vars

\* C18: an update that arrives before any request, for a taxi the file
\* holds, is applied: the registry holds the taxi with the reported
\* position, status, color and customer.
C18_StartupRegistryLoaded ==
    [][\A update \in Updates :
        (/\ update_map(update)
         /\ req_offset = 0
         /\ Has(load_taxis(file), update.taxi_id))
        => (/\ Has(taxis', update.taxi_id)
            /\ Get(taxis', update.taxi_id).position = update.position
            /\ Get(taxis', update.taxi_id).status = update.status
            /\ Get(taxis', update.taxi_id).color = update.color
            /\ Get(taxis', update.taxi_id).customer_asigned = update.customer_id)]_vars

(***************************************************************************)
(* Properties of load_taxis on damaged files (SpecLoad).                   *)
(***************************************************************************)
\* the ids of the lines of the file that load_taxis can parse
WellFormedIds(f) == {StrToInt(f[i][1]) : i \in {j \in 1..Len(f) : LineLoads(f[j])}}

\* C20: load_taxis returns the taxis of all the well-formed lines of the
\* file, wherever the damaged lines are: an authentication, which looks the
\* id up in what load_taxis returns, replies OK exactly for those ids.
C20_CorruptLinesSkipped ==
    [][(UNCHANGED offsets)
        => \A taxi_id \in AuthIds :
            handle_taxi_auth(taxi_id)
            => ((out'[1] = "OK") <=> (taxi_id \in WellFormedIds(file)))]_vars

(***************************************************************************)
(* Properties of the listeners (SpecListeners).                            *)
(***************************************************************************)
\* C17: once the registry knows a taxi, for which topic taxi_updates holds
\* events, the update loop eventually consumes and applies an event.
C17_TelemetryEventuallyApplied == (taxis # <<>>) ~> (upd_offset > 0)

(***************************************************************************)
(* Properties of the threads running together (SpecConc).                  *)
(***************************************************************************)
\* C1: the taxi select_available_taxi chooses for a request is not one that
\* the registry, as it is when the request is processed, holds as BUSY for
\* another customer.
C1_NoDoubleAssignment ==
    [][(rpc = "select" /\ rpc' = "status")
        => ~(/\ Has(taxis, taxis'[rtaxi'].id)
             /\ Get(taxis, taxis'[rtaxi'].id).status = "BUSY"
             /\ Str(Get(taxis, taxis'[rtaxi'].id).customer_asigned)
                    \in {Str(c) : c \in Customers}
             /\ Str(Get(taxis, taxis'[rtaxi'].id).customer_asigned)
                    # Str(rreq.customer_id))]_vars

\* the ids of the taxis the file holds; while save_taxis has the file open,
\* those of the registry it is writing, which it loaded from that file
PersistedIds == IF rpc = "write" THEN Keys(taxis) ELSE Keys(load_taxis(file))

\* C10: the reply to an authentication is OK when the id is one of the
\* persisted taxis and KO when it is not, whatever the request thread is
\* doing; the handler closes the connection next.
C10_AuthReplyMatchesPersistedIds ==
    [][(apc = "load" /\ apc' = "close")
        => out' = <<IF aid \in PersistedIds THEN "OK" ELSE "KO">>]_vars

\* a customer is bound to the taxi
CustomerBound(t) == Str(t.customer_asigned) \notin {"None", ""}
TaxiInvariant(t) ==
    /\ (t.status \in {"BUSY", "END"}) => CustomerBound(t)
    /\ (t.status = "FREE") => ~CustomerBound(t)

\* C11: when no thread is between its write of a taxi's status and its
\* write of the taxi's customer, every taxi of the registry that is BUSY or
\* END has a customer bound and every FREE taxi has none.
C11_TaxiDataInvariant ==
    (rpc \notin {"color", "customer"} /\ upc \notin {"color", "customer"})
    => \A i \in 1..Len(taxis) : TaxiInvariant(taxis[i])

\* taxi t of a published snapshot has the position of the update that is
\* being applied but not yet its status and color
HalfUpdated(t) ==
    /\ upc \in {"status", "color"}
    /\ utaxi.ref = "live"
    /\ uupd.taxi_id = t.id
    /\ t.position = uupd.position
    /\ <<t.status, t.color>> # <<uupd.status, uupd.color>>
\* taxi t of a published snapshot has the status of the assignment that is
\* being made but not yet its color
HalfAssigned(t) ==
    /\ rpc = "color"
    /\ taxis[rtaxi].id = t.id
    /\ t.status = "BUSY"
    /\ t.color # "GREEN"

\* C15: no map_updates message holds a taxi that one thread has only partly
\* written.
C15_SnapshotConsistent ==
    [][((bpc = "send" /\ bpc' = "clear") \/ (upc = "broadcast" /\ upc' = "idle"))
        => \A i \in 1..Len(out'[1].taxis) :
            ~HalfUpdated(out'[1].taxis[i]) /\ ~HalfAssigned(out'[1].taxis[i])]_vars

\* C19: the broadcaster loop never ends.
C19_LoopsKeepRunning == bpc # "dead"

(***************************************************************************)
(* Properties of the request thread and the broadcaster (SpecBroadcast).   *)
(***************************************************************************)
\* the state is the one a publication on map_updates leaves, and the
\* message holds the location of customer c
PublishedWith(c) ==
    /\ Len(out) = 1
    /\ out[1].topic = "map_updates"
    /\ \E i \in 1..Len(out[1].locations) : out[1].locations[i].id = CustomerLocId(c)

\* C14: the registration of a customer's location, which marks the registry
\* changed (lines 244-245), is followed by a map_updates message that holds
\* the location (as long as the broadcaster runs).
C14_NoLostBroadcast ==
    \A c \in Customers :
        (<>Has(locations, CustomerLocId(c))) => <>(PublishedWith(c) \/ bpc = "dead")

====
